---- MODULE Spec2Model ----
(***************************************************************************)
(* A model of pull_course_data.py: the listing scrape of one state         *)
(* (get_courses_by_state), the batch over states (get_courses), the tee    *)
(* detail aggregation (get_course_details, get_course_details_all), the    *)
(* dated csv snapshot (store_course_details, restore_course_details) and   *)
(* get_states.  Each entry point is a small sequential state machine with  *)
(* its own variables; a specification runs one entry point and leaves the  *)
(* variables of the others at their initial values.                        *)
(***************************************************************************)
EXTENDS Integers, Sequences, FiniteSets, TLC

\* ------------------------------------------------------------------ bounds
MaxRows == 2        \* body rows of one listing page
MaxArchive == 2     \* records of the archive handed to get_courses_by_state
MaxCourses == 2     \* rows of the courses frame handed to get_course_details_all
MaxExisting == 2    \* rows of existing_data
MaxTrs == 2         \* <tr> elements of one gvTee table, the header row included
MaxStates == 2      \* length of the states list handed to get_courses
MaxScopeRows == 1   \* listing rows one state yields
MaxRecs == 1        \* records of one stored bucket
MaxData == 2        \* length of a data or dates list handed to restore_course_details
MaxOptions == 2     \* options of the ddState dropdown

\* Python's None, and a local name that has not been assigned yet
None == "None"
Unbound == "Unbound"

\* an optional table argument or result: Python's None, or a DataFrame with
\* its rows; NotReturned is the result slot before the call has returned
NoFrame == [kind |-> "None", rows |-> <<>>]
DataFrame(rows) == [kind |-> "DataFrame", rows |-> rows]
NotReturned == [kind |-> "unset", rows |-> <<>>]

\* ---------------------------------------------------------- listing domain
base_url == "https://ncrdb.usga.org/"

\* the href of a row's first anchor: two course links and a link that holds
\* no CourseID
Hrefs == {"CourseTeeInfo?CourseID=1", "CourseTeeInfo?CourseID=2", "Help"}
NoAnchor == "NoAnchor"
Cities == {"Bend", "Salem"}

\* re.search(r'CourseID=(\d+)', url_ext): the captured digits, None if the
\* pattern does not occur
CourseIdSearch(href) ==
    CASE href = "CourseTeeInfo?CourseID=1" -> "1"
      [] href = "CourseTeeInfo?CourseID=2" -> "2"
      [] OTHER -> None

\* base_url + url_ext
AbsUrl(href) == base_url \o href

PageRows == [anchor : Hrefs \cup {NoAnchor}, city : Cities]

\* an archive record, reduced to the three columns the matching reads
ArchiveRecords ==
    [url : {AbsUrl(h) : h \in {g \in Hrefs : CourseIdSearch(g) # None}},
     course_id : {"1", "2"}, city : Cities]

NoArchive == [given |-> FALSE, recs |-> {}]
Archive(recs) == [given |-> TRUE, recs |-> recs]

\* sequences over S of length at most n
RECURSIVE SeqsUpTo(_, _)
SeqsUpTo(S, n) ==
    IF n = 0 THEN {<<>>}
    ELSE LET shorter == SeqsUpTo(S, n - 1)
         IN  shorter \cup {Append(s, x) : s \in {t \in shorter : Len(t) = n - 1}, x \in S}

\* subsets of S with at most n elements
RECURSIVE SubsetsUpTo(_, _)
SubsetsUpTo(S, n) ==
    IF n = 0 THEN {{}}
    ELSE LET smaller == SubsetsUpTo(S, n - 1)
         IN  smaller \cup {s \cup {x} : s \in {t \in smaller : Cardinality(t) = n - 1}, x \in S}

VARIABLES
    \* get_courses_by_state
    l_pc,        \* position in get_courses_by_state
    archive,     \* the archive argument: given or not, and its set of records
    driver,      \* the browser session: "absent", "open" or "quit"
    page,        \* body rows of the rendered table, known once page_source is read
    url_ext,     \* local of the row loop
    course_id,   \* local of the row loop
    l_i,         \* number of body rows the loop has gone through
    courses,     \* the list of kept course records
    decision,    \* the branch the loop body took for the latest row
    l_msgs,      \* lines printed so far
    l_exc,       \* the exception that ended the call, None if none
    l_ret,       \* the returned value: NotReturned, NoFrame or a DataFrame
    \* get_courses
    b_pc,        \* position in get_courses
    states,      \* the states argument
    site,        \* what get_courses_by_state yields for each state
    b_k,         \* number of states the loop has gone through
    course_list, \* the frames collected so far
    b_trace,     \* warnings printed and sleeps taken, in order
    b_exc,       \* the exception that ended the call, None if none
    b_ret,       \* the returned value
    \* get_course_details_all
    d_pc,             \* position in get_course_details_all
    d_courses,        \* the courses argument: rows with their index label
    existing_data,    \* the existing_data argument
    progress_bar,     \* the progress_bar argument
    d_i,              \* number of rows iterrows() has yielded
    all_courses, new_courses, failed_courses, modified_courses, skipped_courses,
    d_trace,          \* progress prints, page requests and sleeps, in order
    d_exc,            \* the exception that ended the call, None if none
    out_dict,         \* the returned dict, empty before return
    \* store_course_details, restore_course_details, get_states
    s_pc,        \* position in the snapshot scenario or in get_states
    dfs,         \* the dict given to store_course_details
    fs,          \* the data folder: file name -> content
    data,        \* restore_course_details: the data argument, then the list made of it
    dates,       \* restore_course_details: the dates argument, then the list made of it
    s_k,         \* number of keys (or options) the current loop has gone through
    restored,    \* the dict built by restore_course_details
    returns,     \* get_states: the returns argument
    options,     \* get_states: the option texts of the ddState dropdown
    state_list,  \* get_states: the list built so far
    s_io,        \* file writes, file reads and page requests, in order
    s_exc        \* the exception that ended the call, None if none

listingVars == <<l_pc, archive, driver, page, url_ext, course_id, l_i, courses,
                 decision, l_msgs, l_exc, l_ret>>
batchVars == <<b_pc, states, site, b_k, course_list, b_trace, b_exc, b_ret>>
detailVars == <<d_pc, d_courses, existing_data, progress_bar, d_i, all_courses,
                new_courses, failed_courses, modified_courses, skipped_courses,
                d_trace, d_exc, out_dict>>
snapshotVars == <<s_pc, dfs, fs, data, dates, s_k, restored, returns, options,
                  state_list, s_io, s_exc>>

vars == <<listingVars, batchVars, detailVars, snapshotVars>>

\* the entry points that a specification does not run
BatchIdle ==
    /\ b_pc = "idle" /\ states = <<>> /\ site = <<>> /\ b_k = 0 /\ course_list = <<>>
    /\ b_trace = <<>> /\ b_exc = None /\ b_ret = NotReturned

DetailIdle ==
    /\ d_pc = "idle" /\ d_courses = <<>> /\ existing_data = NoFrame /\ progress_bar = FALSE
    /\ d_i = 0 /\ all_courses = <<>> /\ new_courses = <<>> /\ failed_courses = <<>>
    /\ modified_courses = <<>> /\ skipped_courses = <<>> /\ d_trace = <<>>
    /\ d_exc = None /\ out_dict = <<>>

SnapshotIdle ==
    /\ s_pc = "idle" /\ dfs = <<>> /\ fs = <<>> /\ data = <<>> /\ dates = <<>> /\ s_k = 0
    /\ restored = <<>> /\ returns = None /\ options = <<>> /\ state_list = <<>>
    /\ s_io = <<>> /\ s_exc = None

NoDecision == [branch |-> "none", named |-> None]

ListingIdle ==
    /\ l_pc = "idle" /\ archive = NoArchive /\ driver = "absent" /\ page = <<>>
    /\ url_ext = Unbound /\ course_id = Unbound /\ l_i = 0 /\ courses = <<>>
    /\ decision = NoDecision /\ l_msgs = <<>> /\ l_exc = None /\ l_ret = NotReturned

ListingInit ==
    /\ l_pc = "start"
    /\ archive \in {NoArchive} \cup {Archive(recs) : recs \in SubsetsUpTo(ArchiveRecords, MaxArchive)}
    /\ driver = "absent" /\ page = <<>>
    /\ url_ext = Unbound /\ course_id = Unbound /\ l_i = 0 /\ courses = <<>>
    /\ decision = NoDecision /\ l_msgs = <<>> /\ l_exc = None /\ l_ret = NotReturned

\* the call ends with an exception; nothing else is touched
ListingRaise(exc) ==
    /\ l_pc' = "raised" /\ l_exc' = exc

\* lines 73-74: webdriver.Chrome(service=s) opens the session, or fails
\* without one
StartDriver ==
    /\ UNCHANGED <<batchVars, detailVars, snapshotVars>>
    /\ l_pc = "start"
    /\ \E ok \in BOOLEAN :
         IF ok THEN l_pc' = "get" /\ driver' = "open" /\ l_exc' = l_exc
         ELSE ListingRaise("WebDriverException") /\ driver' = driver
    /\ UNCHANGED <<archive, page, url_ext, course_id, l_i, courses, decision, l_msgs, l_ret>>

\* line 75: driver.get(base_url)
LoadPage ==
    /\ UNCHANGED <<batchVars, detailVars, snapshotVars>>
    /\ l_pc = "get"
    /\ \E ok \in BOOLEAN :
         IF ok THEN l_pc' = "select" /\ l_exc' = l_exc
         ELSE ListingRaise("WebDriverException")
    /\ UNCHANGED <<archive, driver, page, url_ext, course_id, l_i, courses, decision, l_msgs, l_ret>>

\* lines 78-79: find the dropdown and select the state by its visible text
SelectState ==
    /\ UNCHANGED <<batchVars, detailVars, snapshotVars>>
    /\ l_pc = "select"
    /\ \E ok \in BOOLEAN :
         IF ok THEN l_pc' = "click" /\ l_exc' = l_exc
         ELSE ListingRaise("NoSuchElementException")
    /\ UNCHANGED <<archive, driver, page, url_ext, course_id, l_i, courses, decision, l_msgs, l_ret>>

\* line 82: click the submit button
ClickSubmit ==
    /\ UNCHANGED <<batchVars, detailVars, snapshotVars>>
    /\ l_pc = "click"
    /\ \E ok \in BOOLEAN :
         IF ok THEN l_pc' = "wait" /\ l_exc' = l_exc
         ELSE ListingRaise("NoSuchElementException")
    /\ UNCHANGED <<archive, driver, page, url_ext, course_id, l_i, courses, decision, l_msgs, l_ret>>

\* lines 84-88: wait for the table; on any exception quit and return None
WaitForTable ==
    /\ UNCHANGED <<batchVars, detailVars, snapshotVars>>
    /\ l_pc = "wait"
    /\ \E visible \in BOOLEAN :
         IF visible
         THEN l_pc' = "source" /\ driver' = driver /\ l_ret' = l_ret
         ELSE l_pc' = "returned" /\ driver' = "quit" /\ l_ret' = NoFrame
    /\ UNCHANGED <<archive, page, url_ext, course_id, l_i, courses, decision, l_msgs, l_exc>>

\* lines 91-92: read driver.page_source into the soup, then driver.quit()
ReadSource ==
    /\ UNCHANGED <<batchVars, detailVars, snapshotVars>>
    /\ l_pc = "source"
    /\ \E ok \in BOOLEAN :
         IF ok
         THEN /\ l_pc' = "headers" /\ driver' = "quit" /\ l_exc' = l_exc
              /\ page' \in SeqsUpTo(PageRows, MaxRows)
         ELSE ListingRaise("WebDriverException") /\ driver' = driver /\ page' = page
    /\ UNCHANGED <<archive, url_ext, course_id, l_i, courses, decision, l_msgs, l_ret>>

\* lines 95-99: find the table and its header cells in the soup
ParseHeaders ==
    /\ UNCHANGED <<batchVars, detailVars, snapshotVars>>
    /\ l_pc = "headers"
    /\ \E ok \in BOOLEAN :
         IF ok THEN l_pc' = "rows" /\ l_exc' = l_exc
         ELSE ListingRaise("AttributeError")
    /\ UNCHANGED <<archive, driver, page, url_ext, course_id, l_i, courses, decision, l_msgs, l_ret>>

\* lines 111-121: the try block assigns url_ext, then course_id; a failure
\* leaves the locals as they are at that point
UrlExtAfter(row, old) == IF row.anchor = NoAnchor THEN old ELSE row.anchor
CourseIdAfter(row, old) ==
    IF row.anchor # NoAnchor /\ CourseIdSearch(row.anchor) # None
    THEN CourseIdSearch(row.anchor) ELSE old
LinkFound(row) == row.anchor # NoAnchor /\ CourseIdSearch(row.anchor) # None

\* lines 108-128: the course record of a row
CourseOf(row) ==
    [url       |-> IF LinkFound(row) THEN AbsUrl(row.anchor) ELSE None,
     course_id |-> IF LinkFound(row) THEN CourseIdSearch(row.anchor) ELSE None,
     city      |-> row.city]

\* lines 137-144: the three criteria, computed from the locals url_ext and
\* course_id and from course['city']
CriteriaUrl(arch, ext) == \E a \in arch : a.url = AbsUrl(ext)
CriteriaCourseId(arch, cid) == \E a \in arch : a.course_id = cid
CityAny(arch, cid, city) ==
    \E a \in arch : a.course_id = cid /\ a.city = city
CityAll(arch, cid, city) ==
    \A a \in arch : a.course_id = cid => a.city = city
CriteriaCity(arch, cid, city) ==
    IF CriteriaCourseId(arch, cid) THEN CityAll(arch, cid, city) ELSE FALSE

Criteria(arch, ext, cid, city) ==
    <<CriteriaUrl(arch, ext), CriteriaCourseId(arch, cid), CriteriaCity(arch, cid, city)>>

\* sum(criteria.values())
SumTrue(c) == Cardinality({k \in 1..Len(c) : c[k]})

\* lines 147-159: the branch chosen from the criteria
Branch(c) ==
    IF SumTrue(c) = Len(c) THEN "skip"
    ELSE IF 0 < SumTrue(c) /\ SumTrue(c) < Len(c) THEN "warn"
    ELSE "new"

\* lines 106-164: one pass of the row loop
ProcessRow ==
    /\ UNCHANGED <<batchVars, detailVars, snapshotVars>>
    /\ l_pc = "rows" /\ l_i < Len(page)
    /\ LET row == page[l_i + 1]
           ext == UrlExtAfter(row, url_ext)
           cid == CourseIdAfter(row, course_id)
           course == CourseOf(row)
       IN  /\ url_ext' = ext
           /\ course_id' = cid
           /\ IF ~archive.given
              THEN /\ courses' = Append(courses, course)
                   /\ decision' = [branch |-> "keep", named |-> None]
                   /\ l_i' = l_i + 1
                   /\ UNCHANGED <<l_pc, l_msgs, l_exc>>
              ELSE IF ext = Unbound \/ cid = Unbound
              THEN \* line 138 or 139 reads a local no row has assigned yet
                   /\ ListingRaise("NameError")
                   /\ UNCHANGED <<courses, decision, l_i, l_msgs>>
              ELSE LET b == Branch(Criteria(archive.recs, ext, cid, course.city))
                   IN  /\ decision' = [branch |-> b, named |-> IF b = "skip" THEN None ELSE cid]
                       /\ courses' = IF b = "skip" THEN courses ELSE Append(courses, course)
                       /\ l_msgs' = CASE b = "skip" -> l_msgs
                                      [] b = "warn" -> Append(l_msgs, <<"WARNING", cid>>)
                                      [] b = "new"  -> Append(l_msgs, <<"INFO", cid>>)
                       /\ l_i' = l_i + 1
                       /\ UNCHANGED <<l_pc, l_exc>>
    /\ UNCHANGED <<archive, driver, page, l_ret>>

\* lines 167-174: return the kept records; an empty frame when there are none
ReturnCourses ==
    /\ UNCHANGED <<batchVars, detailVars, snapshotVars>>
    /\ l_pc = "rows" /\ l_i = Len(page)
    /\ l_pc' = "returned"
    /\ l_ret' = DataFrame(courses)
    /\ l_msgs' = IF Len(courses) > 0 THEN l_msgs ELSE Append(l_msgs, <<"INFO", "No new data">>)
    /\ UNCHANGED <<archive, driver, page, url_ext, course_id, l_i, courses, decision, l_exc>>

ListingNext ==
    \/ StartDriver \/ LoadPage \/ SelectState \/ ClickSubmit \/ WaitForTable
    \/ ReadSource \/ ParseHeaders \/ ProcessRow \/ ReturnCourses

InitListing == ListingInit /\ BatchIdle /\ DetailIdle /\ SnapshotIdle

SpecListing == InitListing /\ [][ListingNext]_vars

\* ---------------------------------------------------------------- C1, C2, C6
\* the criteria of section 4.2, taken from the row's own record
OwnCriteria(arch, r) ==
    LET id_match == \E a \in arch : a.course_id = r.course_id
    IN  <<\E a \in arch : a.url = r.url,
          id_match,
          id_match /\ \A a \in arch : a.course_id = r.course_id => a.city = r.city>>

OwnOutcome(arch, r) ==
    LET n == SumTrue(OwnCriteria(arch, r))
    IN  IF n = 3 THEN "skip" ELSE IF n = 0 THEN "new" ELSE "warn"

OwnDecision(arch, r) ==
    [branch |-> OwnOutcome(arch, r),
     named  |-> IF OwnOutcome(arch, r) = "skip" THEN None ELSE r.course_id]

RECURSIVE OwnKept(_, _)
OwnKept(arch, rows) ==
    IF rows = <<>> THEN <<>>
    ELSE LET r == CourseOf(Head(rows))
         IN  (IF OwnOutcome(arch, r) = "skip" THEN <<>> ELSE <<r>>) \o OwnKept(arch, Tail(rows))

RowDone == l_i > 0 /\ l_pc \in {"rows", "returned"}

\* C1: with an archive every row is classified from its url, id and city
\* match: all true is dropped, mixed is kept with a warning naming the row's
\* course_id, all false is kept with an info line; with no archive every row
\* is kept and nothing is printed for it
C1_RowClassification ==
    /\ l_exc # "NameError"
    /\ (archive.given /\ RowDone) => decision = OwnDecision(archive.recs, CourseOf(page[l_i]))
    /\ (archive.given /\ l_pc = "returned" /\ l_ret.kind = "DataFrame")
          => l_ret.rows = OwnKept(archive.recs, page)
    /\ (~archive.given /\ l_pc = "returned" /\ l_ret.kind = "DataFrame")
          => /\ l_ret.rows = [k \in 1..Len(page) |-> CourseOf(page[k])]
             /\ \A k \in 1..Len(l_msgs) : l_msgs[k][1] \notin {"WARNING"} /\ l_msgs[k][2] \notin {"1", "2"}

SameTupleInArchive(r) ==
    \E a \in archive.recs : a.url = r.url /\ a.course_id = r.course_id /\ a.city = r.city
OnlyCityDiffers(r) ==
    \E a \in archive.recs : a.url = r.url /\ a.course_id = r.course_id /\ a.city # r.city

\* C2 as stated: a row whose (url, course_id, city) is in the archive is
\* skipped, and a row matched on url and course_id whose city differs is kept
\* with a warning, whatever else the archive holds
C2_Original ==
    (archive.given /\ RowDone) =>
        LET r == CourseOf(page[l_i])
        IN  /\ SameTupleInArchive(r) => decision.branch = "skip"
            /\ OnlyCityDiffers(r) => decision.branch = "warn"

\* C2 amended: a row with a url and course_id whose (url, course_id, city) is
\* in the archive is skipped provided every archive record with that
\* course_id has the row's city; a row matched on url and course_id by an
\* archive record with another city is kept with a warning
C2_SkipNeedsAllCities ==
    (archive.given /\ RowDone) =>
        LET r == CourseOf(page[l_i])
        IN  /\ (/\ r.url # None
                /\ SameTupleInArchive(r)
                /\ \A a \in archive.recs : a.course_id = r.course_id => a.city = r.city)
                  => decision.branch = "skip"
            /\ (r.url # None /\ OnlyCityDiffers(r))
                  => decision.branch = "warn" /\ decision.named = r.course_id

\* a row skipped against an archive that holds two records of its course_id
C2_Witness ==
    /\ archive.given /\ RowDone
    /\ LET r == CourseOf(page[l_i])
       IN  /\ SameTupleInArchive(r)
           /\ Cardinality({a \in archive.recs : a.course_id = r.course_id}) = 2
           /\ decision.branch = "skip"

\* C6: a call that opened a browser session has quit it when it returns or
\* raises
C6_SessionReleased ==
    l_pc \in {"returned", "raised"} => driver # "open"

\* C11: with an archive, the url and course_id that the criteria are computed
\* from and that the printed line names are those of the row itself (None
\* when the row has no anchor or no CourseID), never those of an earlier row,
\* and a first row without a link does not abort the call
C11_OwnLinkValues ==
    /\ l_exc # "NameError"
    /\ (archive.given /\ RowDone) =>
         LET r == CourseOf(page[l_i])
         IN  /\ AbsUrl(url_ext) = r.url \/ (r.url = None /\ url_ext = None)
             /\ course_id = r.course_id
             /\ decision.branch # "skip" => decision.named = r.course_id

\* ------------------------------------------------ get_course_details(_all)
CourseIds == {"1", "2"}
IndexLabels == {0, 1}

\* a row of the courses frame, with the index label iterrows() yields for it
CourseRows ==
    {[index |-> n, course_id |-> c, url |-> AbsUrl("CourseTeeInfo?CourseID=" \o c)] :
        n \in IndexLabels, c \in CourseIds}

\* existing_data with pandas' default index 0..n-1
ExistingFrames ==
    {DataFrame([k \in 1..Len(q) |-> [index |-> k - 1, course_id |-> q[k][1], tee |-> q[k][2]]]) :
        q \in SeqsUpTo(CourseIds \X {"blue", "gold"}, MaxExisting)}

\* what requests.get(url) meets: a failing request, a page without the gvTee
\* table, or a page whose gvTee table has trs <tr> elements
DetailPages ==
    {[kind |-> "error", trs |-> 0], [kind |-> "notable", trs |-> 0]}
        \cup {[kind |-> "table", trs |-> n] : n \in 0..MaxTrs}

\* line 255: td.text.lower() with every character outside [A-Za-z0-9./] removed
CleanCell(text) ==
    CASE text = "Blue (M)" -> "bluem"
      [] text = "Gold (W)" -> "goldw"
      [] OTHER -> text
TeeText(k) == IF k = 1 THEN "Blue (M)" ELSE "Gold (W)"

\* lines 233-264: get_course_details(url, course_id).  With no <tr> at all the
\* name header is never assigned and line 261 raises
get_course_details(pg, cid) ==
    CASE pg.kind = "error"   -> [raised |-> TRUE, value |-> NoFrame]
      [] pg.kind = "notable" -> [raised |-> FALSE, value |-> NoFrame]
      [] pg.kind = "table" /\ pg.trs = 0 -> [raised |-> TRUE, value |-> NoFrame]
      [] OTHER -> [raised |-> FALSE,
                   value |-> DataFrame([k \in 1..(pg.trs - 1) |->
                       [index |-> k - 1, course_id |-> cid, tee |-> CleanCell(TeeText(k))]])]

\* an effect of the run that is visible from outside
Event(ev, what, a, b) == [ev |-> ev, what |-> what, a |-> a, b |-> b]

\* lines 534-537: printProgressBar(iteration, total) divides by total
ProgressRaises(iteration, total) == total = 0
ProgressEvent(prefix, iteration, total) == Event("progress", prefix, iteration, total)

\* lines 294-296: existing_data['course_id'].unique().tolist()
NoExclusion(existing) == {}
exclude_course_ids(existing) ==
    IF existing.kind = "DataFrame"
    THEN {existing.rows[k].course_id : k \in 1..Len(existing.rows)}
    ELSE {}

\* line 313: existing_data[existing_data['course_id'] == row['course_id']]
RECURSIVE RowsWithId(_, _)
RowsWithId(rows, cid) ==
    IF rows = <<>> THEN <<>>
    ELSE (IF Head(rows).course_id = cid THEN <<Head(rows)>> ELSE <<>>)
            \o RowsWithId(Tail(rows), cid)
ExistingOf(existing, cid) == DataFrame(RowsWithId(existing.rows, cid))

\* .reset_index(drop=True)
ResetIndex(rows) == [k \in 1..Len(rows) |-> [rows[k] EXCEPT !.index = k - 1]]

\* pd.concat of a list of frames: their rows, one frame after the other
RECURSIVE ConcatRows(_)
ConcatRows(frames) ==
    IF frames = <<>> THEN <<>> ELSE Head(frames).rows \o ConcatRows(Tail(frames))

\* pd.concat of a list of rows (Series): one Series holding the values of the
\* rows one after the other, each under its column name
RECURSIVE ConcatSeries(_)
ConcatSeries(rows) ==
    IF rows = <<>> THEN <<>>
    ELSE <<[index |-> "course_id", value |-> Head(rows).course_id],
           [index |-> "url", value |-> Head(rows).url]>> \o ConcatSeries(Tail(rows))

\* lines 341-344 for a list of frames and for a list of rows
FrameBucket(ls) ==
    IF Len(ls) = 0 THEN NoFrame ELSE DataFrame(ResetIndex(ConcatRows(ls)))
SeriesBucket(ls) ==
    IF Len(ls) = 0 THEN NoFrame
    ELSE [kind |-> "Series", rows |-> ResetIndex(ConcatSeries(ls))]

names == {"all_courses", "new_courses", "failed_courses", "modified_courses", "skipped_courses"}

DetailInit ==
    /\ d_pc = "loop"
    /\ d_courses \in SeqsUpTo(CourseRows, MaxCourses)
    /\ existing_data \in {NoFrame} \cup ExistingFrames
    /\ progress_bar \in BOOLEAN
    /\ d_i = 0 /\ all_courses = <<>> /\ new_courses = <<>> /\ failed_courses = <<>>
    /\ modified_courses = <<>> /\ skipped_courses = <<>> /\ d_trace = <<>>
    /\ d_exc = None /\ out_dict = <<>>

\* lines 305-332: one pass of the loop over courses.iterrows()
ProcessCourse ==
    /\ UNCHANGED <<listingVars, batchVars, snapshotVars>>
    /\ d_pc = "loop" /\ d_i < Len(d_courses)
    /\ d_i' = d_i + 1
    /\ LET row == d_courses[d_i + 1]
           shown == IF progress_bar
                    THEN Append(d_trace, ProgressEvent(row.course_id, row.index, Len(d_courses)))
                    ELSE d_trace
       IN  IF row.course_id \in exclude_course_ids(existing_data)
           THEN /\ skipped_courses' = Append(skipped_courses, row)
                /\ all_courses' = Append(all_courses, ExistingOf(existing_data, row.course_id))
                /\ d_trace' = shown
                /\ UNCHANGED <<new_courses, failed_courses>>
           ELSE \E pg \in DetailPages :
                  LET tees == get_course_details(pg, row.course_id)
                      asked == Append(shown, Event("get", row.url, 0, 0))
                  IN  IF tees.raised
                      THEN /\ failed_courses' = Append(failed_courses, row)
                           /\ d_trace' = asked
                           /\ UNCHANGED <<all_courses, new_courses, skipped_courses>>
                      ELSE /\ IF tees.value = NoFrame
                              THEN /\ skipped_courses' = Append(skipped_courses, row)
                                   /\ UNCHANGED <<all_courses, new_courses>>
                              ELSE /\ all_courses' = Append(all_courses, tees.value)
                                   /\ new_courses' = Append(new_courses, tees.value)
                                   /\ UNCHANGED skipped_courses
                           /\ d_trace' = Append(asked, Event("sleep", "", 0, 0))
                           /\ UNCHANGED failed_courses
    /\ UNCHANGED <<d_pc, d_courses, existing_data, progress_bar, modified_courses, d_exc, out_dict>>

\* lines 335-346: the closing progress print, then the dict of the five buckets
FinishDetails ==
    /\ UNCHANGED <<listingVars, batchVars, snapshotVars>>
    /\ d_pc = "loop" /\ d_i = Len(d_courses)
    /\ IF progress_bar /\ ProgressRaises(Len(d_courses), Len(d_courses))
       THEN /\ d_pc' = "raised" /\ d_exc' = "ZeroDivisionError"
            /\ UNCHANGED <<d_trace, out_dict>>
       ELSE /\ d_pc' = "returned"
            /\ d_trace' = IF progress_bar
                          THEN Append(d_trace, ProgressEvent("COMPLETED", Len(d_courses), Len(d_courses)))
                          ELSE d_trace
            /\ out_dict' = [n \in names |->
                              CASE n = "all_courses" -> FrameBucket(all_courses)
                                [] n = "new_courses" -> FrameBucket(new_courses)
                                [] n = "failed_courses" -> SeriesBucket(failed_courses)
                                [] n = "modified_courses" -> FrameBucket(modified_courses)
                                [] n = "skipped_courses" -> SeriesBucket(skipped_courses)]
            /\ d_exc' = d_exc
    /\ UNCHANGED <<d_courses, existing_data, progress_bar, d_i, all_courses, new_courses,
                   failed_courses, modified_courses, skipped_courses>>

DetailNext == ProcessCourse \/ FinishDetails

InitDetails == ListingIdle /\ BatchIdle /\ DetailInit /\ SnapshotIdle

SpecDetails == InitDetails /\ [][DetailNext]_vars

\* ------------------------------------------------------- C3, C5, C8, C10
\* the course ids a returned bucket holds
IdsInBucket(b) ==
    CASE b.kind = "DataFrame" -> {b.rows[k].course_id : k \in 1..Len(b.rows)}
      [] b.kind = "Series" -> {b.rows[k].value : k \in {j \in 1..Len(b.rows) : j % 2 = 1}}
      [] OTHER -> {}

\* C3: after the run every input listing's course_id is in all, failed or
\* skipped
C3_NoListingDropped ==
    d_pc = "returned" =>
        \A k \in 1..Len(d_courses) :
            d_courses[k].course_id \in IdsInBucket(out_dict["all_courses"])
                \cup IdsInBucket(out_dict["failed_courses"])
                \cup IdsInBucket(out_dict["skipped_courses"])

CountEvents(trace, ev) == Cardinality({k \in 1..Len(trace) : trace[k].ev = ev})

\* C5: the pacing sleep has been taken once for every item gone through
C5_SleepAfterEveryItem ==
    d_pc \in {"loop", "returned"} => CountEvents(d_trace, "sleep") = d_i

\* C8: every run returns the five buckets, each None or a non-empty
\* collection indexed 0..n-1, modified always None, with or without progress
\* printing
C8_FiveBuckets ==
    /\ d_pc # "raised"
    /\ d_pc = "returned" =>
        /\ DOMAIN out_dict = names
        /\ \A n \in names :
             \/ out_dict[n] = NoFrame
             \/ /\ Len(out_dict[n].rows) > 0
                /\ \A k \in 1..Len(out_dict[n].rows) : out_dict[n].rows[k].index = k - 1
        /\ out_dict["modified_courses"] = NoFrame

\* C10: a listing whose course_id is among the existing course ids is not
\* fetched, goes to skipped, and exactly its existing rows go to all; any other
\* listing is fetched once and goes to failed only, to skipped only, or to
\* both all and new
C10_Step ==
    LET row == d_courses[d_i + 1]
        known == /\ existing_data.kind = "DataFrame"
                 /\ \E k \in 1..Len(existing_data.rows) :
                        existing_data.rows[k].course_id = row.course_id
        gets == CountEvents(d_trace', "get") - CountEvents(d_trace, "get")
    IN  IF known
        THEN /\ gets = 0
             /\ skipped_courses' = Append(skipped_courses, row)
             /\ Len(all_courses') = Len(all_courses) + 1
             /\ LET carried == all_courses'[Len(all_courses')].rows
                IN  /\ \A k \in 1..Len(carried) : carried[k].course_id = row.course_id
                    /\ Len(carried) = Cardinality({k \in 1..Len(existing_data.rows) :
                                          existing_data.rows[k].course_id = row.course_id})
                    /\ \A k \in 1..Len(carried) : \E j \in 1..Len(existing_data.rows) :
                           existing_data.rows[j] = carried[k]
             /\ new_courses' = new_courses /\ failed_courses' = failed_courses
        ELSE /\ gets = 1
             /\ \/ /\ failed_courses' = Append(failed_courses, row)
                   /\ UNCHANGED <<all_courses, new_courses, skipped_courses>>
                \/ /\ skipped_courses' = Append(skipped_courses, row)
                   /\ UNCHANGED <<all_courses, new_courses, failed_courses>>
                \/ /\ Len(all_courses') = Len(all_courses) + 1
                   /\ new_courses' = Append(new_courses, all_courses'[Len(all_courses')])
                   /\ UNCHANGED <<failed_courses, skipped_courses>>

C10_Routing == [][d_i' = d_i + 1 => C10_Step]_vars

\* a finished run that carried one listing over from existing_data and
\* fetched records for another
C10_Witness ==
    /\ d_pc = "returned"
    /\ Len(skipped_courses) = 1 /\ Len(new_courses) = 1 /\ Len(all_courses) = 2
    /\ skipped_courses[1].course_id \in exclude_course_ids(existing_data)
    /\ CountEvents(d_trace, "get") = 1

\* ------------------------------------------------------------- get_courses
Scopes == {"Oregon", "Idaho"}

\* what get_courses_by_state(state) comes back with: None after the table
\* wait timed out (lines 84-88), a frame of the state's rows indexed 0..n-1
\* (lines 167-174), or an exception of the browser (lines 73-82)
ScopeFrame(state, ids) ==
    DataFrame([k \in 1..Len(ids) |-> [index |-> k - 1, state |-> state, course_id |-> ids[k]]])
ScopeRaised == [kind |-> "raise", rows |-> <<>>]
ScopeOutcomes(state) ==
    {NoFrame, ScopeRaised} \cup {ScopeFrame(state, ids) : ids \in SeqsUpTo(CourseIds, MaxScopeRows)}

BatchInit ==
    /\ b_pc = "loop"
    /\ states \in SeqsUpTo(Scopes, MaxStates)
    /\ site \in {f \in [Scopes -> UNION {ScopeOutcomes(st) : st \in Scopes}] :
                    \A st \in Scopes : f[st] \in ScopeOutcomes(st)}
    /\ b_k = 0 /\ course_list = <<>> /\ b_trace = <<>> /\ b_exc = None /\ b_ret = NotReturned

\* lines 203-215: one pass of the loop over states
PullState ==
    /\ UNCHANGED <<listingVars, detailVars, snapshotVars>>
    /\ b_pc = "loop" /\ b_k < Len(states)
    /\ LET state == states[b_k + 1]
           got == site[state]
       IN  IF got = ScopeRaised
           THEN /\ b_pc' = "raised" /\ b_exc' = "WebDriverException"
                /\ UNCHANGED <<b_k, course_list, b_trace>>
           ELSE /\ b_k' = b_k + 1
                /\ IF got # NoFrame
                   THEN /\ course_list' = Append(course_list, got)
                        /\ b_trace' = Append(b_trace, Event("sleep", "", 3, 0))
                   ELSE /\ course_list' = course_list
                        /\ b_trace' = b_trace \o <<Event("WARNING", state, 0, 0),
                                                   Event("sleep", "", 3, 0)>>
                /\ UNCHANGED <<b_pc, b_exc>>
    /\ UNCHANGED <<states, site, b_ret>>

\* line 218: pd.concat(course_list), which raises on an empty list
ConcatCourses ==
    /\ UNCHANGED <<listingVars, detailVars, snapshotVars>>
    /\ b_pc = "loop" /\ b_k = Len(states)
    /\ IF course_list = <<>>
       THEN b_pc' = "raised" /\ b_exc' = "ValueError" /\ b_ret' = b_ret
       ELSE b_pc' = "returned" /\ b_ret' = DataFrame(ConcatRows(course_list)) /\ b_exc' = b_exc
    /\ UNCHANGED <<states, site, b_k, course_list, b_trace>>

BatchNext == PullState \/ ConcatCourses

InitBatch == ListingIdle /\ BatchInit /\ DetailIdle /\ SnapshotIdle

SpecBatch == InitBatch /\ [][BatchNext]_vars

\* ----------------------------------------------------------------------- C4
RECURSIVE RowsOfSucceeded(_)
RowsOfSucceeded(sts) ==
    IF sts = <<>> THEN <<>>
    ELSE (IF site[Head(sts)].kind = "DataFrame" THEN site[Head(sts)].rows ELSE <<>>)
            \o RowsOfSucceeded(Tail(sts))

RECURSIVE WarningsOf(_)
WarningsOf(trace) ==
    IF trace = <<>> THEN <<>>
    ELSE (IF Head(trace).ev = "WARNING" THEN <<Head(trace).what>> ELSE <<>>)
            \o WarningsOf(Tail(trace))

RECURSIVE TimedOut(_)
TimedOut(sts) ==
    IF sts = <<>> THEN <<>>
    ELSE (IF site[Head(sts)] = NoFrame THEN <<Head(sts)>> ELSE <<>>) \o TimedOut(Tail(sts))

\* C4: whichever of the states time out, the call returns the rows of the
\* states that succeeded, in input order, with a warning naming each state
\* that timed out; only an exception of a state's scrape ends the batch
C4_TimeoutsNotFatal ==
    /\ (b_pc = "raised" /\ Len(states) > 0) => \E k \in 1..Len(states) : site[states[k]] = ScopeRaised
    /\ b_pc = "returned" =>
         /\ b_ret = DataFrame(RowsOfSucceeded(states))
         /\ WarningsOf(b_trace) = TimedOut(states)

\* ------------------------- store_course_details, restore_course_details
\* a cell of a frame: a Python str, a number, or NaN
Str(text) == [t |-> "str", v |-> text]
Num(text) == [t |-> "num", v |-> text]
NaN == [t |-> "nan", v |-> ""]

\* lines 382, 422-426: the bucket keys in order, and the file of a key and date
keys == <<"all_courses", "new_courses", "failed_courses", "modified_courses", "skipped_courses">>
fmap(key, date) ==
    CASE key = "all_courses"      -> "all_course_details_" \o date \o ".csv"
      [] key = "new_courses"      -> "new_course_details_" \o date \o ".csv"
      [] key = "failed_courses"   -> "failed_course_details_" \o date \o ".csv"
      [] key = "modified_courses" -> "modified_course_details_" \o date \o ".csv"
      [] key = "skipped_courses"  -> "skipped_course_details_" \o date \o ".csv"

\* lines 514-518: get_date() is today as YYYYMMDD; pd.to_datetime(d).strftime('%Y%m%d')
Today == "20261101"
DateInputs == {"2026-11-01", "20261102"}
Ymd(d) ==
    CASE d = "2026-11-01" -> "20261101"
      [] d = "20261102" -> "20261102"
      [] OTHER -> d

FileNames == {fmap(n, d) : n \in names, d \in {Today} \cup {Ymd(x) : x \in DateInputs}}

Missing == [kind |-> "missing", lines |-> <<>>]
ZeroBytes == [kind |-> "empty", lines |-> <<>>]

\* df.to_csv(filename, index=False): the header line and one line of cell
\* texts per record; NaN is written as the empty text
CellText(val) == IF val.t = "nan" THEN "" ELSE val.v
to_csv(frame) ==
    [kind |-> "csv",
     lines |-> [k \in 1..Len(frame.rows) |->
                  <<CellText(frame.rows[k].course_id), CellText(frame.rows[k].tee)>>]]

\* pd.read_csv(filename): a text among the default na_values is NaN; a column
\* whose other texts are all numerals is numeric, any other column holds str
NaTexts == {"", "n/a"}
Numeral(text) ==
    CASE text = "7" -> "7"
      [] text = "007" -> "7"
      [] OTHER -> None
ColumnIsNumeric(lines, j) ==
    \A k \in 1..Len(lines) : lines[k][j] \in NaTexts \/ Numeral(lines[k][j]) # None
ParseCell(lines, j, text) ==
    IF text \in NaTexts THEN NaN
    ELSE IF ColumnIsNumeric(lines, j) THEN Num(Numeral(text)) ELSE Str(text)
read_csv(content) ==
    CASE content.kind = "missing" -> [raised |-> TRUE, value |-> NoFrame]
      [] content.kind = "empty"   -> [raised |-> TRUE, value |-> NoFrame]
      [] OTHER -> [raised |-> FALSE,
                   value |-> DataFrame([k \in 1..Len(content.lines) |->
                       [course_id |-> ParseCell(content.lines, 1, content.lines[k][1]),
                        tee       |-> ParseCell(content.lines, 2, content.lines[k][2])]])]

\* the records a bucket can hold: course_id as scraped (str) or as read back
\* from a csv (number), and a cleaned cell text
StoredRecords ==
    [course_id : {Str("7"), Str("007"), Num("7")}, tee : {Str("blue"), Str("")}]
StoredFrames == {DataFrame(q) : q \in SeqsUpTo(StoredRecords, MaxRecs) \ {<<>>}}

\* an argument of restore_course_details with its Python type
Arg(type, items) == [type |-> type, items |-> items]
ArgNames == {"all_courses", "bogus"}
DataArgs ==
    {Arg("none", <<>>), Arg("tuple", <<>>)}
        \cup {Arg("str", <<n>>) : n \in ArgNames}
        \cup {Arg("list", q) : q \in SeqsUpTo(ArgNames, MaxData)}
DatesArgs ==
    {Arg("none", <<>>)}
        \cup {Arg("str", <<d>>) : d \in DateInputs}
        \cup {Arg("list", q) : q \in SeqsUpTo(DateInputs, MaxData)}

SnapshotInit ==
    /\ s_pc = "store"
    /\ \E present \in SUBSET names, frame \in StoredFrames :
         dfs = [n \in names |-> IF n \in present THEN frame ELSE NoFrame]
    /\ fs = [f \in FileNames |-> Missing]
    /\ data = <<>> /\ dates = <<>>
    /\ s_k = 0 /\ restored = <<>> /\ returns = None /\ options = <<>> /\ state_list = <<>>
    /\ s_io = <<>> /\ s_exc = None

\* lines 384-394: one pass of the loop of store_course_details
StoreFile ==
    /\ UNCHANGED <<listingVars, batchVars, detailVars>>
    /\ s_pc = "store" /\ s_k < Len(keys)
    /\ LET key == keys[s_k + 1]
           filename == fmap(key, Today)
       IN  /\ fs' = [fs EXCEPT ![filename] = IF dfs[key] = NoFrame THEN ZeroBytes ELSE to_csv(dfs[key])]
           /\ s_io' = Append(s_io, Event("write", filename, 0, 0))
    /\ s_k' = s_k + 1
    /\ s_pc' = IF s_k + 1 = Len(keys) THEN "stored" ELSE "store"
    /\ UNCHANGED <<dfs, data, dates, restored, returns, options, state_list, s_exc>>

\* restore_course_details(data, dates) is called on the stored folder
CallRestore ==
    /\ UNCHANGED <<listingVars, batchVars, detailVars>>
    /\ s_pc = "stored"
    /\ s_pc' = "r_args"
    /\ data' \in DataArgs /\ dates' \in DatesArgs
    /\ UNCHANGED <<dfs, fs, s_k, restored, returns, options, state_list, s_io, s_exc>>

Repeat(x, n) == [k \in 1..n |-> x]

\* lines 428-446: restore_course_details makes lists of data and of dates
RestoreArgs ==
    /\ UNCHANGED <<listingVars, batchVars, detailVars>>
    /\ s_pc = "r_args"
    /\ LET dataErr ==
               CASE data.type \in {"none", "str"} -> None
                 [] data.type # "list" -> "TypeError"
                 [] \E k \in 1..Len(data.items) : data.items[k] \notin names -> "IndexError"
                 [] OTHER -> None
           dataList == IF data.type = "none" THEN keys ELSE data.items
           datesErr ==
               CASE dates.type \in {"none", "str"} -> None
                 [] dates.type = "list" /\ Len(dates.items) = Len(dataList) -> None
                 [] OTHER -> "LookupError"
           datesList ==
               CASE dates.type = "none" -> Repeat(Today, Len(dataList))
                 [] dates.type = "str" -> Repeat(Ymd(dates.items[1]), Len(dataList))
                 [] OTHER -> [k \in 1..Len(dates.items) |-> Ymd(dates.items[k])]
       IN  IF dataErr # None
           THEN s_pc' = "r_raised" /\ s_exc' = dataErr /\ UNCHANGED <<data, dates>>
           ELSE IF datesErr # None
           THEN /\ s_pc' = "r_raised" /\ s_exc' = datesErr
                /\ data' = Arg("list", dataList) /\ dates' = dates
           ELSE /\ s_pc' = "r_read" /\ s_exc' = s_exc
                /\ data' = Arg("list", dataList) /\ dates' = Arg("list", datesList)
    /\ s_k' = 0
    /\ UNCHANGED <<dfs, fs, restored, returns, options, state_list, s_io>>

\* lines 450-456: one pass of the loop over zip(data, dates)
RestoreRead ==
    /\ UNCHANGED <<listingVars, batchVars, detailVars>>
    /\ s_pc = "r_read" /\ s_k < Len(data.items)
    /\ LET key == data.items[s_k + 1]
           date == dates.items[s_k + 1]
       IN  IF key \notin names
           THEN \* fmap[key] on line 451 is outside the try
                /\ s_pc' = "r_raised" /\ s_exc' = "KeyError"
                /\ UNCHANGED <<s_k, restored, s_io>>
           ELSE LET filename == fmap(key, date)
                    df == read_csv(fs[filename])
                IN  /\ s_io' = Append(s_io, Event("read", filename, 0, 0))
                    /\ restored' = [n \in DOMAIN restored \cup {key} |->
                                      IF n = key THEN df.value ELSE restored[n]]
                    /\ s_k' = s_k + 1
                    /\ UNCHANGED <<s_pc, s_exc>>
    /\ UNCHANGED <<dfs, fs, data, dates, returns, options, state_list>>

\* line 458
RestoreReturn ==
    /\ UNCHANGED <<listingVars, batchVars, detailVars>>
    /\ s_pc = "r_read" /\ s_k = Len(data.items)
    /\ s_pc' = "r_returned"
    /\ UNCHANGED <<dfs, fs, data, dates, s_k, restored, returns, options, state_list, s_io, s_exc>>

\* ---------------------------------------------------------------- get_states
OptionTexts == {"(Select)", "Oregon", "Idaho"}
\* opt['value']
OptionValue(text) ==
    CASE text = "Oregon" -> "US-OR"
      [] text = "Idaho" -> "US-ID"
      [] OTHER -> "0"

GetStatesInit ==
    /\ s_pc = "g_fetch"
    /\ returns \in {"state_name_only", "state_name_and_id", "state_id_only"}
    /\ options \in SeqsUpTo(OptionTexts, MaxOptions)
    /\ dfs = <<>> /\ fs = <<>> /\ data = <<>> /\ dates = <<>> /\ s_k = 0 /\ restored = <<>>
    /\ state_list = <<>> /\ s_io = <<>> /\ s_exc = None

\* lines 31-32: fetch and parse the page
FetchStates ==
    /\ UNCHANGED <<listingVars, batchVars, detailVars>>
    /\ s_pc = "g_fetch"
    /\ \E ok \in BOOLEAN :
         IF ok
         THEN s_pc' = "g_options" /\ s_exc' = s_exc
         ELSE s_pc' = "g_raised" /\ s_exc' = "ConnectionError"
    /\ s_io' = Append(s_io, Event("get", base_url, 0, 0))
    /\ UNCHANGED <<dfs, fs, data, dates, s_k, restored, returns, options, state_list>>

\* lines 35-44: one pass of the loop over the options
ReadOption ==
    /\ UNCHANGED <<listingVars, batchVars, detailVars>>
    /\ s_pc = "g_options" /\ s_k < Len(options)
    /\ LET text == options[s_k + 1]
       IN  IF text = "(Select)"
           THEN s_k' = s_k + 1 /\ UNCHANGED <<s_pc, state_list, s_exc>>
           ELSE IF returns = "state_name_only"
           THEN /\ state_list' = Append(state_list, <<text>>)
                /\ s_k' = s_k + 1 /\ UNCHANGED <<s_pc, s_exc>>
           ELSE IF returns = "state_name_and_id"
           THEN /\ state_list' = Append(state_list, <<text, OptionValue(text)>>)
                /\ s_k' = s_k + 1 /\ UNCHANGED <<s_pc, s_exc>>
           ELSE /\ s_pc' = "g_raised" /\ s_exc' = "NameError"
                /\ UNCHANGED <<s_k, state_list>>
    /\ UNCHANGED <<dfs, fs, data, dates, restored, returns, options, s_io>>

\* line 46
ReturnStates ==
    /\ UNCHANGED <<listingVars, batchVars, detailVars>>
    /\ s_pc = "g_options" /\ s_k = Len(options)
    /\ s_pc' = "g_returned"
    /\ UNCHANGED <<dfs, fs, data, dates, s_k, restored, returns, options, state_list, s_io, s_exc>>

SnapshotNext ==
    \/ StoreFile \/ CallRestore \/ RestoreArgs \/ RestoreRead \/ RestoreReturn
    \/ FetchStates \/ ReadOption \/ ReturnStates

InitSnapshot == ListingIdle /\ BatchIdle /\ DetailIdle /\ (SnapshotInit \/ GetStatesInit)

SpecSnapshot == InitSnapshot /\ [][SnapshotNext]_vars

\* ------------------------------------------------------------------- C7, C9
\* C7: restoring, for the date of the store, what store_course_details wrote
\* gives every requested bucket back as it was stored: the same records field
\* for field, and None for a bucket that was None
C7_RoundTrip ==
    (s_pc = "r_returned" /\ \A k \in 1..Len(dates.items) : dates.items[k] = Today) =>
        \A n \in DOMAIN restored : restored[n] = dfs[n]

\* C9: invalid input is raised before any I/O: get_states with an unknown
\* returns raises without having fetched the page, and restore_course_details
\* with an unknown bucket name or with dates and data of different lengths
\* raises without having read a file
C9_RaisedBeforeIO ==
    /\ returns \notin {None, "state_name_only", "state_name_and_id"} =>
         /\ s_pc # "g_returned"
         /\ CountEvents(s_io, "get") = 0
    /\ s_pc = "r_raised" => CountEvents(s_io, "read") = 0
    /\ (s_pc \in {"r_read", "r_returned"} /\ CountEvents(s_io, "read") > 0) =>
         /\ \A k \in 1..Len(data.items) : data.items[k] \in names
         /\ Len(data.items) = Len(dates.items)

====
